---- MODULE Spec2Model ----
(***************************************************************************)
(* Model of the css selector builder of src/src/05-objects-tasks.js:       *)
(* the class SimpleSelector (lines 116-211) and the facade                 *)
(* cssSelectorBuilder (lines 213-250).                                     *)
(*                                                                         *)
(* A text is a sequence of tokens (one-character strings and values), so   *)
(* that `a += b` is a \o b and every rendering is visible in the text.     *)
(***************************************************************************)
EXTENDS Integers, Sequences, FiniteSets, TLC

(* ---------------------------- bounds ----------------------------------- *)
\* Spec: calls made in all, on any number of expressions
MaxCalls == 3
\* SpecChain: calls made on the one expression
MaxChain == 4
\* SpecNest: operands of a right-nested combination
NestObj == 4
\* SpecPair: chained fragment calls made on the two expressions
PairChained == 1
\* SpecRect: the largest width and height, in absolute value
MaxSide == 20

Values == {"v", "w"}
\* SpecNest: the value of every operand, and the combinators of lines 98-110
NestValues == {"v"}
NestCombinators == {"+", "~", " "}
\* SpecPair: the value of every fragment
PairValues == {"v"}
Combinators == {" ", "+", "~", ">"}

(* --------------------------- messages ---------------------------------- *)
NoError == "none"
DuplicateSelectorPartError ==
  "Element, id and pseudo-element should not occur more then one time inside the selector"
SelectorOrderError ==
  "Selector parts should be arranged in the following order: element, id, class, attribute, pseudo-class, pseudo-element"

VARIABLES heap, result, last, log, rects, rcall

vars == <<heap, result, last, log, rects, rcall>>

(* --------------------------- Rectangle --------------------------------- *)
\* new Rectangle(width, height): the fields, and the parameters the arrow
\* function of getArea closes over
Rectangle(width, height) ==
  [width |-> width, height |-> height,
   getArea |-> [width |-> width, height |-> height]]

\* getArea adding the sides
getArea_sum(r) == r.getArea.width + r.getArea.height

\* r.getArea(): () => width * height
getArea(r) == r.getArea.width * r.getArea.height

\* a call on Rectangle: the constructor's arguments and the value returned
RectCall(op, width, height, ret) ==
  [op |-> op, width |-> width, height |-> height, ret |-> ret]

(* ------------------------ SimpleSelector ------------------------------- *)
\* JS `undefined`, the value of pop() on an empty array
Undefined == -1

\* this.stack.pop(): the value returned
PopValue(stack) == IF stack = <<>> THEN Undefined ELSE stack[Len(stack)]

\* this.stack.pop(): the array left behind
PopRest(stack) == IF stack = <<>> THEN <<>> ELSE SubSeq(stack, 1, Len(stack) - 1)

\* JS truthiness of a number-or-undefined: undefined and 0 are falsy
Truthy(x) == x # Undefined /\ x # 0

\* constructor()
SimpleSelector ==
  [str |-> <<>>, stack |-> <<>>, isElement |-> FALSE, isId |-> FALSE,
   isPseudoElement |-> FALSE]

\* stringify() that hands the text out and starts over with an empty one
stringify_consume(self) == [obj |-> [self EXCEPT !.str = <<>>], ret |-> self.str]

\* stringify(): the returned text and the object afterwards
stringify(self) == [obj |-> self, ret |-> self.str]

\* element(value) with the order test written against the wrong rank
element_wrongRank(self, value) ==
  IF self.isElement
    THEN [obj |-> self, err |-> DuplicateSelectorPartError]
    ELSE LET s1 == [self EXCEPT !.isElement = TRUE, !.str = @ \o <<value>>]
             lastOrder == PopValue(s1.stack)
             s2 == [s1 EXCEPT !.stack = PopRest(@)]
         IN IF Truthy(lastOrder) /\ lastOrder > 1
              THEN [obj |-> s2, err |-> SelectorOrderError]
              ELSE [obj |-> [s2 EXCEPT !.stack = Append(@, 0)], err |-> NoError]

\* element(value): the object afterwards and the error thrown, if any
element(self, value) ==
  IF self.isElement
    THEN [obj |-> self, err |-> DuplicateSelectorPartError]
    ELSE LET s1 == [self EXCEPT !.isElement = TRUE, !.str = @ \o <<value>>]
             lastOrder == PopValue(s1.stack)
             s2 == [s1 EXCEPT !.stack = PopRest(@)]
         IN IF Truthy(lastOrder) /\ lastOrder > 0
              THEN [obj |-> s2, err |-> SelectorOrderError]
              ELSE [obj |-> [s2 EXCEPT !.stack = Append(@, 0)], err |-> NoError]

\* id(value) without `this.isId = true`
id_flagNotSet(self, value) ==
  IF self.isId
    THEN [obj |-> self, err |-> DuplicateSelectorPartError]
    ELSE LET s1 == [self EXCEPT !.str = @ \o <<"#", value>>]
             lastOrder == PopValue(s1.stack)
             s2 == [s1 EXCEPT !.stack = PopRest(@)]
         IN IF Truthy(lastOrder) /\ lastOrder > 1
              THEN [obj |-> s2, err |-> SelectorOrderError]
              ELSE [obj |-> [s2 EXCEPT !.stack = Append(@, 1)], err |-> NoError]

id(self, value) ==
  IF self.isId
    THEN [obj |-> self, err |-> DuplicateSelectorPartError]
    ELSE LET s1 == [self EXCEPT !.isId = TRUE, !.str = @ \o <<"#", value>>]
             lastOrder == PopValue(s1.stack)
             s2 == [s1 EXCEPT !.stack = PopRest(@)]
         IN IF Truthy(lastOrder) /\ lastOrder > 1
              THEN [obj |-> s2, err |-> SelectorOrderError]
              ELSE [obj |-> [s2 EXCEPT !.stack = Append(@, 1)], err |-> NoError]

\* class(value) appending the value without its dot
class_noDot(self, value) ==
  LET s1 == [self EXCEPT !.str = @ \o <<value>>]
      lastOrder == PopValue(s1.stack)
      s2 == [s1 EXCEPT !.stack = PopRest(@)]
  IN IF Truthy(lastOrder) /\ lastOrder > 2
       THEN [obj |-> s2, err |-> SelectorOrderError]
       ELSE [obj |-> [s2 EXCEPT !.stack = Append(@, 2)], err |-> NoError]

class(self, value) ==
  LET s1 == [self EXCEPT !.str = @ \o <<".", value>>]
      lastOrder == PopValue(s1.stack)
      s2 == [s1 EXCEPT !.stack = PopRest(@)]
  IN IF Truthy(lastOrder) /\ lastOrder > 2
       THEN [obj |-> s2, err |-> SelectorOrderError]
       ELSE [obj |-> [s2 EXCEPT !.stack = Append(@, 2)], err |-> NoError]

\* attr(value) rejecting an equal rank as well
attr_strict(self, value) ==
  LET s1 == [self EXCEPT !.str = @ \o <<"[", value, "]">>]
      lastOrder == PopValue(s1.stack)
      s2 == [s1 EXCEPT !.stack = PopRest(@)]
  IN IF Truthy(lastOrder) /\ lastOrder >= 3
       THEN [obj |-> s2, err |-> SelectorOrderError]
       ELSE [obj |-> [s2 EXCEPT !.stack = Append(@, 3)], err |-> NoError]

attr(self, value) ==
  LET s1 == [self EXCEPT !.str = @ \o <<"[", value, "]">>]
      lastOrder == PopValue(s1.stack)
      s2 == [s1 EXCEPT !.stack = PopRest(@)]
  IN IF Truthy(lastOrder) /\ lastOrder > 3
       THEN [obj |-> s2, err |-> SelectorOrderError]
       ELSE [obj |-> [s2 EXCEPT !.stack = Append(@, 3)], err |-> NoError]

\* pseudoElement(value) appending its text before the duplicate test
pseudoElement_appendFirst(self, value) ==
  LET s0 == [self EXCEPT !.str = @ \o <<":", ":", value>>]
  IN IF self.isPseudoElement
       THEN [obj |-> s0, err |-> DuplicateSelectorPartError]
       ELSE LET s1 == [s0 EXCEPT !.isPseudoElement = TRUE]
                lastOrder == PopValue(s1.stack)
                s2 == [s1 EXCEPT !.stack = PopRest(@)]
            IN IF Truthy(lastOrder) /\ lastOrder > 5
                 THEN [obj |-> s2, err |-> SelectorOrderError]
                 ELSE [obj |-> [s2 EXCEPT !.stack = Append(@, 5)], err |-> NoError]

\* pseudoClass(value) assigning its fragment to the text instead of appending
pseudoClass_overwrite(self, value) ==
  LET s1 == [self EXCEPT !.str = <<":", value>>]
      lastOrder == PopValue(s1.stack)
      s2 == [s1 EXCEPT !.stack = PopRest(@)]
  IN IF Truthy(lastOrder) /\ lastOrder > 4
       THEN [obj |-> s2, err |-> SelectorOrderError]
       ELSE [obj |-> [s2 EXCEPT !.stack = Append(@, 4)], err |-> NoError]

pseudoClass(self, value) ==
  LET s1 == [self EXCEPT !.str = @ \o <<":", value>>]
      lastOrder == PopValue(s1.stack)
      s2 == [s1 EXCEPT !.stack = PopRest(@)]
  IN IF Truthy(lastOrder) /\ lastOrder > 4
       THEN [obj |-> s2, err |-> SelectorOrderError]
       ELSE [obj |-> [s2 EXCEPT !.stack = Append(@, 4)], err |-> NoError]

pseudoElement(self, value) ==
  IF self.isPseudoElement
    THEN [obj |-> self, err |-> DuplicateSelectorPartError]
    ELSE LET s1 == [self EXCEPT !.isPseudoElement = TRUE, !.str = @ \o <<":", ":", value>>]
             lastOrder == PopValue(s1.stack)
             s2 == [s1 EXCEPT !.stack = PopRest(@)]
         IN IF Truthy(lastOrder) /\ lastOrder > 5
              THEN [obj |-> s2, err |-> SelectorOrderError]
              ELSE [obj |-> [s2 EXCEPT !.stack = Append(@, 5)], err |-> NoError]

\* combine without the spaces around the combinator
combine_noSpaces(self, combinator, selectorText) ==
  [obj |-> [self EXCEPT !.str = @ \o <<combinator>> \o selectorText],
   err |-> NoError]

\* combine that also starts the order bookkeeping over
combine_resetOrder(self, combinator, selectorText) ==
  [obj |-> [self EXCEPT !.str = @ \o <<" ", combinator, " ">> \o selectorText,
                        !.stack = <<>>],
   err |-> NoError]

\* combine with the operands' texts the wrong way round
combine_swapped(self, combinator, selectorText) ==
  [obj |-> [self EXCEPT !.str = selectorText \o <<" ", combinator, " ">> \o @],
   err |-> NoError]

\* combine that closes the expression to further fragments
combine_terminal(self, combinator, selectorText) ==
  [obj |-> [self EXCEPT !.str = @ \o <<" ", combinator, " ">> \o selectorText,
                        !.stack = <<6>>],
   err |-> NoError]

\* combine that throws on a receiver holding no rank marker
combine_needsMarker(self, combinator, selectorText) ==
  IF self.stack = <<>>
    THEN [obj |-> self, err |-> SelectorOrderError]
    ELSE [obj |-> [self EXCEPT !.str = @ \o <<" ", combinator, " ">> \o selectorText],
          err |-> NoError]

\* combine(combinator, selector): `selectorText` is selector.stringify()
combine(self, combinator, selectorText) ==
  [obj |-> [self EXCEPT !.str = @ \o <<" ", combinator, " ">> \o selectorText],
   err |-> NoError]

\* the method a fragment name selects
Method(kind, self, value) ==
  CASE kind = "element" -> element(self, value)
    [] kind = "id" -> id(self, value)
    [] kind = "class" -> class(self, value)
    [] kind = "attr" -> attr(self, value)
    [] kind = "pseudoClass" -> pseudoClass(self, value)
    [] kind = "pseudoElement" -> pseudoElement(self, value)

Kinds == {"element", "id", "class", "attr", "pseudoClass", "pseudoElement"}

(* ----------------------------- state ----------------------------------- *)
\* heap   : the SimpleSelector objects created so far, by reference 1..Len(heap)
\* result : cssSelectorBuilder.result, 0 for null
\* last   : the most recent call: its receiver, arguments, the error thrown
\*          and the value returned (ref for an expression, text for stringify)
\* log    : per object, the calls made on it (stringify apart), each with the
\*          receiver as it was before the call and, for combine, the operand
\*          and the text its stringify() returned
Objs == 1..Len(heap)

Entry(op, value, err, before, arg, other, facade) ==
  [op |-> op, value |-> value, err |-> err, before |-> before, arg |-> arg,
   other |-> other, facade |-> facade]

Call(op, self, value, other, err, ref, text) ==
  [op |-> op, self |-> self, value |-> value, other |-> other, err |-> err,
   ref |-> ref, text |-> text]

Init ==
  /\ heap = <<>>
  /\ result = 0
  /\ last = Call("none", 0, "", 0, NoError, 0, <<>>)
  /\ log = <<>>
  /\ rects = <<>>
  /\ rcall = RectCall("none", 0, 0, 0)

(* ------------------------ cssSelectorBuilder --------------------------- *)
\* this.result = new SimpleSelector(); return this.result.<kind>(value);
FacadeCall(kind, value) ==
  LET o == Len(heap) + 1
      r == Method(kind, SimpleSelector, value)
  IN /\ heap' = Append(heap, r.obj)
     /\ result' = o
     /\ log' = Append(log, <<Entry(kind, value, r.err, SimpleSelector, <<>>, 0, TRUE)>>)
     /\ last' = Call(kind, o, value, 0, r.err, IF r.err = NoError THEN o ELSE 0, <<>>)
     /\ UNCHANGED <<rects, rcall>>

cssSelectorBuilder_element(value) == FacadeCall("element", value)

\* id(value) run on the cached this.result instead of a new SimpleSelector
cssSelectorBuilder_id_reuseResult(value) ==
  IF result = 0 THEN FacadeCall("id", value)
  ELSE LET r == Method("id", heap[result], value)
       IN /\ heap' = [heap EXCEPT ![result] = r.obj]
          /\ log' = [log EXCEPT ![result] =
                       Append(@, Entry("id", value, r.err, SimpleSelector, <<>>, 0, TRUE))]
          /\ last' = Call("id", result, value, 0, r.err,
                          IF r.err = NoError THEN result ELSE 0, <<>>)
          /\ UNCHANGED <<result, rects, rcall>>

cssSelectorBuilder_id(value) == FacadeCall("id", value)

cssSelectorBuilder_class(value) == FacadeCall("class", value)

cssSelectorBuilder_attr(value) == FacadeCall("attr", value)

cssSelectorBuilder_pseudoClass(value) == FacadeCall("pseudoClass", value)

cssSelectorBuilder_pseudoElement(value) == FacadeCall("pseudoElement", value)

\* selector1.combine(combinator, selector2) on the heap: the argument
\* selector.stringify() is evaluated, then this.str is assigned
CombineOn(h, selector1, combinator, selector2) ==
  LET st == stringify(h[selector2])
      h1 == [h EXCEPT ![selector2] = st.obj]
      r == combine(h1[selector1], combinator, st.ret)
  IN [heap |-> [h1 EXCEPT ![selector1] = r.obj], err |-> r.err, arg |-> st.ret]

\* this.result = selector1.combine(combinator, selector2); return this.result;
cssSelectorBuilder_combine(selector1, combinator, selector2) ==
  LET c == CombineOn(heap, selector1, combinator, selector2)
  IN /\ heap' = c.heap
     /\ result' = selector1
     /\ log' = [log EXCEPT ![selector1] =
                  Append(@, Entry("combine", combinator, c.err, heap[selector1], c.arg, selector2, TRUE))]
     /\ last' = Call("combine", selector1, combinator, selector2, c.err, selector1, <<>>)
     /\ UNCHANGED <<rects, rcall>>

(* ------------------ calls chained on an expression --------------------- *)
\* o.<kind>(value) that leaves o alone and returns a changed copy of it
Invoke_returnsCopy(o, kind, value) ==
  LET r == Method(kind, heap[o], value)
      n == Len(heap) + 1
  IN /\ heap' = Append(heap, r.obj)
     /\ log' = Append(log, Append(log[o], Entry(kind, value, r.err, heap[o], <<>>, 0, FALSE)))
     /\ last' = Call(kind, o, value, 0, r.err, IF r.err = NoError THEN n ELSE 0, <<>>)
     /\ UNCHANGED <<result, rects, rcall>>

\* o.<kind>(value) on an expression the caller holds
Invoke(o, kind, value) ==
  LET r == Method(kind, heap[o], value)
  IN /\ heap' = [heap EXCEPT ![o] = r.obj]
     /\ log' = [log EXCEPT ![o] = Append(@, Entry(kind, value, r.err, heap[o], <<>>, 0, FALSE))]
     /\ last' = Call(kind, o, value, 0, r.err, IF r.err = NoError THEN o ELSE 0, <<>>)
     /\ UNCHANGED <<result, rects, rcall>>

Call_element(o, value) == Invoke(o, "element", value)

Call_id(o, value) == Invoke(o, "id", value)

Call_class(o, value) == Invoke(o, "class", value)

Call_attr(o, value) == Invoke(o, "attr", value)

Call_pseudoClass(o, value) == Invoke(o, "pseudoClass", value)

Call_pseudoElement(o, value) == Invoke(o, "pseudoElement", value)

\* o.stringify()
Call_stringify(o) ==
  LET st == stringify(heap[o])
  IN /\ heap' = [heap EXCEPT ![o] = st.obj]
     /\ last' = Call("stringify", o, "", 0, NoError, 0, st.ret)
     /\ UNCHANGED <<result, log, rects, rcall>>

(* ------------------------ calls on Rectangle --------------------------- *)
\* r = new Rectangle(width, height)
New_Rectangle(width, height) ==
  /\ rects' = <<Rectangle(width, height)>>
  /\ rcall' = RectCall("new", width, height, 0)
  /\ UNCHANGED <<heap, result, last, log>>

\* r.getArea()
Call_getArea ==
  /\ rects # <<>>
  /\ rcall' = RectCall("getArea", rcall.width, rcall.height, getArea(rects[1]))
  /\ UNCHANGED <<heap, result, last, log, rects>>

(* --------------------------- exploration ------------------------------- *)
\* the number of calls made so far, stringify apart
RECURSIVE NumCallsIn(_)
NumCallsIn(logs) ==
  IF logs = <<>> THEN 0 ELSE Len(Head(logs)) + NumCallsIn(Tail(logs))

NumCalls == NumCallsIn(log)

\* the number of combine calls made so far
NumCombine ==
  Cardinality({p \in UNION {{o} \X (1..Len(log[o])) : o \in Objs} :
                 log[p[1]][p[2]].op = "combine"})

Create(vals) ==
  \E value \in vals :
    \/ cssSelectorBuilder_element(value)
    \/ cssSelectorBuilder_id(value)
    \/ cssSelectorBuilder_class(value)
    \/ cssSelectorBuilder_attr(value)
    \/ cssSelectorBuilder_pseudoClass(value)
    \/ cssSelectorBuilder_pseudoElement(value)

Chain ==
  \E o \in Objs, value \in Values :
    \/ Call_element(o, value)
    \/ Call_id(o, value)
    \/ Call_class(o, value)
    \/ Call_attr(o, value)
    \/ Call_pseudoClass(o, value)
    \/ Call_pseudoElement(o, value)

Combine ==
  \E selector1 \in Objs, combinator \in Combinators, selector2 \in Objs :
    cssSelectorBuilder_combine(selector1, combinator, selector2)

Read == \E o \in Objs : Call_stringify(o)

\* any calls, in any order, on any expressions
Next ==
  \/ NumCalls < MaxCalls /\ Create(Values)
  \/ NumCalls < MaxCalls /\ Chain
  \/ NumCalls < MaxCalls /\ Combine
  \/ Read

Spec == Init /\ [][Next]_vars

\* the lifetime of one expression: its entry call, then any calls on it
NextChain ==
  \/ heap = <<>> /\ Create(Values)
  \/ NumCalls < MaxChain /\ Chain
  \/ NumCalls < MaxChain /\ Combine
  \/ Read

SpecChain == Init /\ [][NextChain]_vars

\* the nested call of lines 98-110: the operands are built left to right,
\* then combined from the innermost call outwards
NestedCombine ==
  LET right == Len(heap) - NumCombine
  IN /\ right >= 2
     /\ \E combinator \in NestCombinators :
          cssSelectorBuilder_combine(right - 1, combinator, right)

NextNest ==
  \/ NumCombine = 0 /\ Len(heap) < NestObj /\ Create(NestValues)
  \/ NestedCombine

SpecNest == Init /\ [][NextNest]_vars

\* the number of chained fragment calls made so far
NumChained ==
  Cardinality({p \in UNION {{o} \X (1..Len(log[o])) : o \in Objs} :
                 log[p[1]][p[2]].op \in Kinds /\ ~log[p[1]][p[2]].facade})

ChainPair ==
  \E o \in Objs, value \in PairValues :
    \/ Call_element(o, value)
    \/ Call_id(o, value)
    \/ Call_class(o, value)
    \/ Call_attr(o, value)
    \/ Call_pseudoClass(o, value)
    \/ Call_pseudoElement(o, value)

\* two expressions, combined once, with fragment calls chained on either
\* before or after the combination
NextPair ==
  \/ Len(heap) < 2 /\ Create(PairValues)
  \/ Len(heap) = 2 /\ NumChained < PairChained /\ ChainPair
  \/ Len(heap) = 2 /\ NumCombine = 0 /\ Combine

SpecPair == Init /\ [][NextPair]_vars

Sides == (0 - MaxSide)..MaxSide

\* a rectangle is constructed and asked for its area, again and again
NextRect ==
  \/ \E width \in Sides, height \in Sides : New_Rectangle(width, height)
  \/ Call_getArea

SpecRect == Init /\ [][NextRect]_vars

(* ======================================================================= *)
(* The claims                                                              *)
(* ======================================================================= *)
\* the grammar rank of a fragment kind
Rank(kind) ==
  CASE kind = "element" -> 0
    [] kind = "id" -> 1
    [] kind = "class" -> 2
    [] kind = "attr" -> 3
    [] kind = "pseudoClass" -> 4
    [] kind = "pseudoElement" -> 5

\* the documented rendering of a fragment
Render(kind, value) ==
  CASE kind = "element" -> <<value>>
    [] kind = "id" -> <<"#", value>>
    [] kind = "class" -> <<".", value>>
    [] kind = "attr" -> <<"[", value, "]">>
    [] kind = "pseudoClass" -> <<":", value>>
    [] kind = "pseudoElement" -> <<":", ":", value>>

Singletons == {"element", "id", "pseudoElement"}

\* the rank marker an expression holds, Undefined when it holds none
Marker(obj) == PopValue(obj.stack)

\* C1: on a fresh expression, a call of kind k1 followed by a call of kind
\* k2 of strictly lower rank makes the second call raise the ordering error.
C1_SecondLowerRankRaisesOrderError ==
  \A o \in Objs :
    (/\ Len(log[o]) >= 2
     /\ log[o][2].op \in Kinds
     /\ Rank(log[o][2].op) < Rank(log[o][1].op))
    => log[o][2].err = SelectorOrderError

\* id('v').element('w') has raised the ordering error
C1_Witness ==
  \E o \in Objs :
    /\ Len(log[o]) = 2
    /\ log[o][1].op = "id" /\ log[o][1].err = NoError
    /\ log[o][2].op = "element" /\ log[o][2].err = SelectorOrderError
    /\ last.op = "element" /\ last.self = o /\ last.ref = 0

\* C2: whatever lies in between, every invocation of element, id or
\* pseudoElement after the first one on the same expression raises the
\* duplicate error; each singleton flag is set exactly when its operation
\* has been invoked, and once set it is never cleared.
C2_Repeats ==
  \A o \in Objs : \A i, j \in 1..Len(log[o]) :
    (i < j /\ log[o][i].op \in Singletons /\ log[o][j].op = log[o][i].op)
    => log[o][j].err = DuplicateSelectorPartError

C2_Flags ==
  \A o \in Objs :
    /\ heap[o].isElement <=> \E i \in 1..Len(log[o]) : log[o][i].op = "element"
    /\ heap[o].isId <=> \E i \in 1..Len(log[o]) : log[o][i].op = "id"
    /\ heap[o].isPseudoElement <=> \E i \in 1..Len(log[o]) : log[o][i].op = "pseudoElement"

C2_NeverCleared ==
  \A o \in Objs :
    /\ heap[o].isElement => heap'[o].isElement
    /\ heap[o].isId => heap'[o].isId
    /\ heap[o].isPseudoElement => heap'[o].isPseudoElement

C2_SingletonsAtMostOnce ==
  [](C2_Repeats /\ C2_Flags) /\ [][C2_NeverCleared]_vars

\* a second id call, made after a rejected call and a combine, has raised
\* the duplicate error
C2_Witness ==
  \E o \in Objs :
    /\ Len(log[o]) = 4
    /\ log[o][1].op = "id"
    /\ log[o][2].err = SelectorOrderError
    /\ log[o][3].op = "combine"
    /\ log[o][4].op = "id" /\ log[o][4].err = DuplicateSelectorPartError

\* the text the documented renderings of the fragment calls of a log give,
\* in call order
RECURSIVE Rendered(_)
Rendered(l) ==
  IF l = <<>> THEN <<>>
  ELSE Render(Head(l).op, Head(l).value) \o Rendered(Tail(l))

\* a log of fragment calls with non-decreasing ranks and no repeated singleton
ValidOrder(l) ==
  /\ \A i \in 1..Len(l) : l[i].op \in Kinds
  /\ \A i, j \in 1..Len(l) : i < j => Rank(l[i].op) <= Rank(l[j].op)
  /\ \A i, j \in 1..Len(l) : (i < j /\ l[i].op \in Singletons) => l[j].op # l[i].op

\* C3: in a call sequence with non-decreasing ranks and no repeated
\* singleton no call raises an error, and stringify() returns the
\* concatenation of the per-kind renderings in call order.
C3_ValidOrderRendersInCallOrder ==
  \A o \in Objs :
    ValidOrder(log[o]) =>
      /\ \A i \in 1..Len(log[o]) : log[o][i].err = NoError
      /\ heap[o].str = Rendered(log[o])
      /\ (last.op = "stringify" /\ last.self = o) => last.text = Rendered(log[o])

\* id('v').class('w').class('v').stringify() has returned '#v.w.v'
C3_Witness ==
  \E o \in Objs :
    /\ Len(log[o]) = 3
    /\ log[o][1].op = "id" /\ log[o][2].op = "class" /\ log[o][3].op = "class"
    /\ last.op = "stringify" /\ last.self = o
    /\ last.text = <<"#", "v", ".", "w", ".", "v">>

\* the highest rank among the accepted fragment calls l[1..n], Undefined
\* when there is none
MaxAccepted(l, n) ==
  LET ranks == {Rank(l[i].op) : i \in {k \in 1..n : l[k].op \in Kinds /\ l[k].err = NoError}}
  IN IF ranks = {} THEN Undefined
     ELSE CHOOSE m \in ranks : \A x \in ranks : x <= m

\* C4: a fragment call whose rank is strictly less than the highest rank of
\* the calls accepted before it on the same expression is rejected, and the
\* rank marker is the maximum rank of all accepted calls so far.
C4_MarkerIsMaximumAcceptedRank ==
  \A o \in Objs :
    /\ \A j \in 1..Len(log[o]) :
         (/\ log[o][j].op \in Kinds
          /\ MaxAccepted(log[o], j - 1) # Undefined
          /\ Rank(log[o][j].op) < MaxAccepted(log[o], j - 1))
         => log[o][j].err # NoError
    /\ Marker(heap[o]) = MaxAccepted(log[o], Len(log[o]))

\* whether the singleton flag a fragment kind tests is set
FlagSet(obj, kind) ==
  CASE kind = "element" -> obj.isElement
    [] kind = "id" -> obj.isId
    [] kind = "pseudoElement" -> obj.isPseudoElement
    [] OTHER -> FALSE

\* a fragment call made while the expression held a marker above its rank
BelowMarker(e) ==
  /\ e.op \in Kinds
  /\ Marker(e.before) # Undefined
  /\ Rank(e.op) < Marker(e.before)

\* C5 as stated: every fragment call whose rank is below the rank recorded
\* on the expression raises the ordering error, repeats of element and id
\* included.
C5_BelowMarkerAlwaysOrderError ==
  \A o \in Objs : \A j \in 1..Len(log[o]) :
    BelowMarker(log[o][j]) => log[o][j].err = SelectorOrderError

\* C5 as amended: every fragment call whose rank is below the rank marker
\* the expression holds raises the ordering error, except a repeat of
\* element or id, whose singleton test comes first and raises the duplicate
\* error.
C5_BelowMarkerOrderErrorUnlessRepeat ==
  \A o \in Objs : \A j \in 1..Len(log[o]) :
    BelowMarker(log[o][j]) =>
      log[o][j].err = IF FlagSet(log[o][j].before, log[o][j].op)
                        THEN DuplicateSelectorPartError
                        ELSE SelectorOrderError

\* element, class, element: the third call is below the marker and a repeat
C5_Witness ==
  \E o \in Objs :
    /\ Len(log[o]) >= 3
    /\ log[o][1].op = "element" /\ log[o][2].op = "class" /\ log[o][3].op = "element"
    /\ Marker(log[o][3].before) = 2
    /\ log[o][3].err = DuplicateSelectorPartError
    /\ \E p \in Objs : \E j \in 1..Len(log[p]) :
         BelowMarker(log[p][j]) /\ log[p][j].err = SelectorOrderError

\* the entry the last call left in its receiver's log
LastEntry == log[last.self][Len(log[last.self])]

\* C6: combine(left, c, right) returns left, whose text is now its text
\* before the call, one space, c, one space, and the text right.stringify()
\* returned.
C6_CombineAppendsCombinatorAndRight ==
  last.op = "combine" =>
    /\ last.value \in Combinators
    /\ last.ref = last.self /\ result = last.self
    /\ LastEntry.arg = IF last.other = last.self THEN LastEntry.before.str
                       ELSE heap[last.other].str
    /\ heap[last.self].str =
         LastEntry.before.str \o <<" ", last.value, " ">> \o LastEntry.arg

\* 'v#w' combined by '+' with 'w#v' gives 'v#w + w#v', and ' ' gives three
\* spaces
C6_Witness ==
  /\ last.op = "combine" /\ last.other # last.self
  /\ LastEntry.before.str = <<"v">>
  /\ heap[last.other].str = <<"#", "w">>
  /\ \/ heap[last.self].str = <<"v", " ", "+", " ", "#", "w">>
     \/ heap[last.self].str = <<"v", " ", " ", " ", "#", "w">>

\* the step just taken is a combine call
CombineStep == last'.op = "combine" /\ last'.self \in Objs /\ last'.other \in Objs

\* text, rank bookkeeping and flags of an expression are the same after the step
Untouched(o) == heap'[o] = heap[o]

\* C7 as stated: combine leaves text, rank marker and flags of both operands
\* as they were.
C7_CombineLeavesOperands ==
  [][CombineStep => Untouched(last'.self) /\ Untouched(last'.other)]_vars

\* C7 as amended: combine leaves every expression but the left operand as
\* it was, the right operand included when it is another expression, and
\* leaves the left operand's rank marker and flags as they were; the left
\* operand's text is extended in place.
C7_CombineChangesOnlyLeftText ==
  [][CombineStep =>
       /\ \A o \in Objs \ {last'.self} : Untouched(o)
       /\ heap'[last'.self] = [heap[last'.self] EXCEPT !.str = heap'[last'.self].str]
       /\ Len(heap'[last'.self].str) > Len(heap[last'.self].str)
       /\ SubSeq(heap'[last'.self].str, 1, Len(heap[last'.self].str)) = heap[last'.self].str
    ]_vars

\* after a combine of two expressions the left one reads differently, the
\* right one as before
C7_Witness ==
  /\ last.op = "combine" /\ last.other # last.self
  /\ heap[last.self].str # LastEntry.before.str
  /\ heap[last.self].stack = LastEntry.before.stack /\ heap[last.self].stack # <<>>
  /\ heap[last.other].str = LastEntry.arg

\* the text of a right-nested combination of single-fragment operands
RECURSIVE Flat(_)
Flat(o) ==
  IF Len(log[o]) >= 2 /\ log[o][2].op = "combine" /\ log[o][2].other # o
    THEN Render(log[o][1].op, log[o][1].value)
           \o <<" ", log[o][2].value, " ">> \o Flat(log[o][2].other)
    ELSE Render(log[o][1].op, log[o][1].value)

\* C8: when the right operand of a combine is itself the result of a
\* combine, the result reads 'a c1 b c2 c', both combinators in order, and
\* so on at any depth of right-nesting.
C8_NestedCombineFlattens ==
  /\ \A o \in Objs : heap[o].str = Flat(o)
  /\ (/\ last.op = "combine"
      /\ last.other # last.self
      /\ log[last.other][Len(log[last.other])].op = "combine")
     => LET inner == log[last.other][Len(log[last.other])]
        IN heap[last.self].str =
             LastEntry.before.str \o <<" ", last.value, " ">>
               \o inner.before.str \o <<" ", inner.value, " ">> \o inner.arg

\* the shape of lines 98-111: a + (b ~ (c ' ' d)) reads 'a + b ~ c   d'
C8_Witness ==
  /\ Len(heap) = 4
  /\ last.op = "combine" /\ last.self = 1
  /\ heap[1].str = <<"v", " ", "+", " ", "#", "v", " ", "~", " ",
                     ":", "v", " ", " ", " ", "v">>

\* one logged call run on its own: a facade fragment call on a new
\* SimpleSelector, any other call on the expression its chain has built
ReplayStep(obj, e) ==
  IF e.op \in Kinds
    THEN Method(e.op, IF e.facade THEN SimpleSelector ELSE obj, e.value)
    ELSE combine(obj, e.value, e.arg)

\* the expression o as its j-th call left it, seen when its next call began
\* (now, for its latest call)
After(o, j) == IF j = Len(log[o]) THEN heap[o] ELSE log[o][j + 1].before

\* every call found the expression as the chain's previous call had left
\* it, and did to it what it does when the chain runs alone
C9_AsWhenAlone ==
  \A o \in Objs : \A j \in 1..Len(log[o]) :
    LET alone == ReplayStep(IF j = 1 THEN SimpleSelector ELSE After(o, j - 1), log[o][j])
    IN /\ alone.obj = After(o, j)
       /\ alone.err = log[o][j].err
       /\ (log[o][j].op \in Kinds /\ log[o][j].facade) <=> j = 1

C9_OnlyOwnCalls ==
  \A o \in Objs : heap'[o] # heap[o] => last'.self = o

\* C9: chains started by separate facade entry calls are independent: in
\* any interleaving each expression is what its own calls build when they
\* run alone, each call is accepted or rejected as when its chain runs
\* alone, an expression changes only in a call made on it, and an entry
\* call starts from a new expression whatever the facade's result holds.
C9_ChainsIndependent ==
  [](C9_AsWhenAlone) /\ [][C9_OnlyOwnCalls]_vars

\* a chain went on after another chain's entry call had replaced the
\* facade's result
C9_Witness ==
  /\ Len(heap) = 2
  /\ result = 2
  /\ Len(log[1]) = 2 /\ log[1][2].op \in Kinds
  /\ last.self = 1 /\ last.op = log[1][2].op
  /\ log[2][1].op = log[1][1].op

C10_ReturnsText ==
  last.op = "stringify" => last.text = heap[last.self].str

C10_NoEffect ==
  last'.op = "stringify" =>
    /\ last'.self \in Objs
    /\ last'.text = heap[last'.self].str
    /\ heap' = heap /\ result' = result /\ log' = log
    /\ (last.op = "stringify" /\ last.self = last'.self) => last'.text = last.text

\* C10: stringify() returns the accumulated text, in whatever state the
\* expression is, leaves text, rank marker and flags as they were, and
\* returns the same text when called again.
C10_StringifyIdempotent ==
  [](C10_ReturnsText) /\ [][C10_NoEffect]_vars

\* stringify() called after a rejected call and a combine
C10_Witness ==
  /\ last.op = "stringify"
  /\ last.text = heap[last.self].str /\ last.text # <<>>
  /\ Len(log[last.self]) = 3
  /\ log[last.self][2].err = SelectorOrderError
  /\ log[last.self][3].op = "combine"

Repeatable == {"class", "attr", "pseudoClass"}

\* a call made while the expression held no marker above the call's rank
NotBelowMarker(e) ==
  Marker(e.before) = Undefined \/ Marker(e.before) <= Rank(e.op)

\* C11: class, attr and pseudoClass have no singleton constraint: called on
\* an expression whose rank marker is not above theirs, however often they
\* were called before, they are accepted, append their own fragment and
\* leave the marker at their own rank.
C11_RepeatableAccepted ==
  \A o \in Objs : \A j \in 1..Len(log[o]) :
    (log[o][j].op \in Repeatable /\ NotBelowMarker(log[o][j])) =>
      /\ log[o][j].err = NoError
      /\ After(o, j).str =
           log[o][j].before.str \o Render(log[o][j].op, log[o][j].value)
      /\ Marker(After(o, j)) = Rank(log[o][j].op)
      /\ After(o, j) = [log[o][j].before EXCEPT !.str = After(o, j).str,
                                                 !.stack = After(o, j).stack]

\* the same repeatable fragment three times in a row, each accepted
C11_Witness ==
  \E o \in Objs : \E k \in Repeatable :
    /\ Len(log[o]) = 4
    /\ \A j \in 2..4 : log[o][j].op = k /\ log[o][j].err = NoError
    /\ Marker(heap[o]) = Rank(k)
    /\ heap[o].str = log[o][2].before.str
                       \o Render(k, log[o][2].value) \o Render(k, log[o][3].value)
                       \o Render(k, log[o][4].value)

\* C12: combine leaves the receiver's rank marker and singleton flags as
\* they were, so the fragment call that follows it is accepted or rejected
\* as it would have been on the receiver as it was before the combine.
C12_CombineKeepsBookkeeping ==
  \A o \in Objs : \A j \in 1..Len(log[o]) :
    log[o][j].op = "combine" =>
      /\ After(o, j).stack = log[o][j].before.stack
      /\ After(o, j).isElement = log[o][j].before.isElement
      /\ After(o, j).isId = log[o][j].before.isId
      /\ After(o, j).isPseudoElement = log[o][j].before.isPseudoElement
      /\ (j < Len(log[o]) /\ log[o][j + 1].op \in Kinds) =>
           log[o][j + 1].err =
             Method(log[o][j + 1].op, log[o][j].before, log[o][j + 1].value).err

\* id('v') combined with another expression, then element('v') on it: the
\* ordering error, as without the combine
C12_Witness ==
  /\ Len(heap) = 2 /\ Len(log[1]) = 3
  /\ log[1][1].op = "id"
  /\ log[1][2].op = "combine" /\ log[1][2].other = 2
  /\ log[1][3].before.stack = <<1>> /\ log[1][3].before.isId
  /\ log[1][3].op = "element" /\ log[1][3].err = SelectorOrderError

\* C13: combine and stringify never raise an error, whatever state the
\* receiver and the operand are in.
C13_CombineAndStringifyNeverRaise ==
  /\ \A o \in Objs : \A j \in 1..Len(log[o]) :
       log[o][j].op = "combine" => log[o][j].err = NoError
  /\ last.op = "combine" => last.err = NoError /\ last.ref = last.self
  /\ last.op = "stringify" => last.err = NoError /\ last.text = heap[last.self].str

\* after a rejected fragment call, two combines and a stringify went through
C13_Witness ==
  /\ last.op = "stringify" /\ last.err = NoError
  /\ Len(log[last.self]) = 4
  /\ log[last.self][2].err = SelectorOrderError
  /\ log[last.self][3].op = "combine" /\ log[last.self][3].err = NoError
  /\ log[last.self][3].before.stack = <<>>
  /\ log[last.self][4].op = "combine" /\ log[last.self][4].err = NoError

\* the facade fragment calls logged so far
FacadeEntries ==
  {p \in UNION {{o} \X (1..Len(log[o])) : o \in Objs} :
     log[p[1]][p[2]].op \in Kinds /\ log[p[1]][p[2]].facade}

\* C14: every accepted fragment call and every combine call returns the
\* expression it was invoked on; a facade entry call returns the new
\* expression it created and facade combine returns its left operand; no
\* call creates another expression.
C14_ReturnsReceiver ==
  /\ (last.op \in Kinds /\ last.err = NoError) => last.ref = last.self
  /\ (last.op \in Kinds /\ LastEntry.facade) =>
       /\ last.self = result /\ Len(log[last.self]) = 1
       /\ heap[last.self] = Method(last.op, SimpleSelector, last.value).obj
  /\ last.op = "combine" => last.ref = last.self /\ result = last.self
  /\ Len(heap) = Cardinality(FacadeEntries)

\* a chained call and a facade combine have each returned their receiver
C14_Witness ==
  /\ Len(heap) = 2
  /\ last.op = "combine" /\ last.self = 1 /\ last.other = 2 /\ last.ref = 1
  /\ Len(log[2]) = 2 /\ log[2][2].op \in Kinds /\ log[2][2].err = NoError

\* C15: new Rectangle(w, h) has width w and height h, and its getArea()
\* returns w * h.
C15_RectangleArea ==
  /\ rcall.op # "none" =>
       /\ Len(rects) = 1
       /\ rects[1].width = rcall.width
       /\ rects[1].height = rcall.height
  /\ rcall.op = "getArea" => rcall.ret = rcall.width * rcall.height

\* new Rectangle(10, 20).getArea() has returned 200
C15_Witness ==
  /\ rcall.op = "getArea"
  /\ rects[1].width = 10 /\ rects[1].height = 20
  /\ rcall.ret = 200

\* text, rank marker and the three singleton flags of a and b are the same
SameExpression(a, b) ==
  /\ a.str = b.str
  /\ Marker(a) = Marker(b)
  /\ a.isElement = b.isElement
  /\ a.isId = b.isId
  /\ a.isPseudoElement = b.isPseudoElement

\* the calls made so far: expression and position in its log
Calls == UNION {{o} \X (1..Len(log[o])) : o \in Objs}

\* C16 as stated: a fragment call rejected with the ordering error leaves
\* text, rank marker and singleton flags of the expression as they were.
C16_OrderRejectedLeavesUnchanged ==
  \A p \in Calls :
    log[p[1]][p[2]].err = SelectorOrderError =>
      SameExpression(After(p[1], p[2]), log[p[1]][p[2]].before)

\* C17: a fragment call rejected with the duplicate error leaves text, rank
\* marker and singleton flags of the expression as they were.
C17_DuplicateRejectedLeavesUnchanged ==
  \A p \in Calls :
    log[p[1]][p[2]].err = DuplicateSelectorPartError =>
      /\ log[p[1]][p[2]].op \in Singletons
      /\ FlagSet(log[p[1]][p[2]].before, log[p[1]][p[2]].op)
      /\ SameExpression(After(p[1], p[2]), log[p[1]][p[2]].before)
      /\ After(p[1], p[2]) = log[p[1]][p[2]].before

\* element('v').pseudoElement('w'), then pseudoElement('v') rejected as a
\* duplicate, the expression still reading v::w with marker 5
C17_Witness ==
  /\ Len(heap) = 1 /\ Len(log[1]) = 3
  /\ log[1][3].op = "pseudoElement"
  /\ log[1][3].err = DuplicateSelectorPartError
  /\ heap[1].str = <<"v", ":", ":", "w">>
  /\ Marker(heap[1]) = 5

\* the text a is the beginning of the text b
IsPrefix(a, b) == Len(a) <= Len(b) /\ SubSeq(b, 1, Len(a)) = a

\* C18: the accumulated text is append-only: whatever is done to an
\* expression (fragment call accepted or rejected, combine, stringify), its
\* text before is a prefix of its text after.
C18_TextAppendOnly ==
  [][\A o \in Objs : IsPrefix(heap[o].str, heap'[o].str)]_vars

\* id('v'), element('w') rejected for its order, combine with itself, and
\* stringify() still beginning with #vw
C18_Witness ==
  /\ Len(heap) = 1 /\ Len(log[1]) = 3
  /\ log[1][2].op = "element" /\ log[1][2].err = SelectorOrderError
  /\ log[1][3].op = "combine"
  /\ last.op = "stringify"
  /\ last.text = <<"#", "v", "w", " ", "+", " ", "#", "v", "w">>

\* what the ordering and singleton rules make of a call of `kind` on obj
RuleOutcome(obj, kind) ==
  IF FlagSet(obj, kind) THEN DuplicateSelectorPartError
  ELSE IF Marker(obj) # Undefined /\ Marker(obj) > Rank(kind) THEN SelectorOrderError
  ELSE NoError

\* the fragment calls made on an expression right after a combine on it
AfterCombine ==
  {p \in Calls : /\ p[2] > 1
                 /\ log[p[1]][p[2]].op \in Kinds
                 /\ log[p[1]][p[2] - 1].op = "combine"}

\* C19: a fragment call made on a combined expression is accepted or
\* rejected by the ordering and singleton rules exactly as on the receiver
\* before the combination, and an accepted one appends its rendered
\* fragment at the very end of the text, after the right operand's text.
C19_FragmentAfterCombine ==
  \A p \in AfterCombine :
    LET e == log[p[1]][p[2]]
        c == log[p[1]][p[2] - 1]
    IN /\ e.err = RuleOutcome(c.before, e.op)
       /\ e.err = Method(e.op, c.before, e.value).err
       /\ e.before.str = c.before.str \o <<" ", c.value, " ">> \o c.arg
       /\ e.err = NoError =>
            After(p[1], p[2]).str = e.before.str \o Render(e.op, e.value)

\* combine(element('v'), '+', id('v')).class('v') reads v + #v.v
C19_Witness ==
  /\ Len(heap) = 2 /\ Len(log[1]) = 3
  /\ log[1][1].op = "element"
  /\ log[1][2].op = "combine" /\ log[1][2].other = 2
  /\ log[1][3].op = "class" /\ log[1][3].err = NoError
  /\ heap[1].str = <<"v", " ", "+", " ", "#", "v", ".", "v">>

====
